---------------------------- MODULE Spec2Model ----------------------------
(***************************************************************************)
(* Model of the tk-video-analyzer backend: the per-job analysis pipeline   *)
(* (backend/analyzer.py), its two notifying wrappers and the SSE           *)
(* connection registry with its stream readers (backend/main.py).          *)
(*                                                                         *)
(* The server runs on one asyncio event loop, so the code between two      *)
(* suspension points is one atomic step.  A job suspends only while a      *)
(* collaborator runs (asyncio.to_thread, generate_content_async); a stream *)
(* reader suspends only in queue.get().  Each action below is therefore    *)
(* "resume after a collaborator returned or raised, run to the next        *)
(* suspension point".  The status file and the files of the job directory  *)
(* are assumed writable (no disk failure is modelled).                     *)
(*                                                                         *)
(* A string the code builds with an f-string is modelled as the sequence   *)
(* of its pieces; a URL is the sequence of its path tokens.                *)
(***************************************************************************)
EXTENDS Naturals, Sequences, FiniteSets

\* ------------------------------------------------------------------ bounds
NumJobs == 1
NumObservers == 2
MaxPublishes == 2

\* Job ids (uuid4 in the code) are numbered in the order the jobs are
\* created, stream requests in the order they arrive.
Jobs == 1..NumJobs
Observers == 1..NumObservers
None == 0

\* ------------------------------------------------------------------ inputs
\* URLs as token sequences: a direct video link, a note (image post) link,
\* a bare profile link, and a near miss that has "videos" but not "/video/".
Urls ==
    { <<"tiktok.com", "/", "@user", "/", "video", "/", "123">>,
      <<"douyin.com", "/", "note", "/", "456">>,
      <<"tiktok.com", "/", "@user">>,
      <<"tiktok.com", "/", "videos", "/", "video">> }

NoUrl == <<>>

\* A video, as far as the collaborators see it: the container extension the
\* downloader reports, the speech whisper hears, the scenes [start, end) the
\* detector returns, and the frame indices at which video.read() yields a
\* frame.  What a collaborator returns when it succeeds is a function of
\* the video; whether it succeeds is not.
TalkVideo ==
    [ext |-> "mp4", speech |-> "hello world",
     scenes |-> << <<0, 10>>, <<10, 20>> >>, readable |-> 0..19]
SilentVideo ==
    [ext |-> "webm", speech |-> "",
     scenes |-> << <<0, 10>>, <<10, 20>> >>, readable |-> (0..19) \ {5}]
NoVideo == [ext |-> "", speech |-> "", scenes |-> <<>>, readable |-> {}]

\* The videos a client uploads, and the video behind each supported URL.
Uploads == {TalkVideo}
RemoteVideo(u) ==
    IF \E i \in 1..Len(u) : u[i] = "note" THEN SilentVideo ELSE TalkVideo

LlmText == "# Report"

\* ------------------------------------------------------------- state
VARIABLES
    pc,          \* job -> position of the job's background task
    kind,        \* job -> "none" | "url" | "upload"
    url,         \* job -> the URL posted to /analyze (NoUrl for uploads)
    video,       \* job -> the video stored in the job directory
    status,      \* job -> content of status.txt (<<>> while the file is absent)
    files,       \* job -> names in the job directory (status.txt aside)
    transcript,  \* job -> the pipeline's local variable `transcript`
    report,      \* job -> content of report.md (<<>> while absent)
    dirs,        \* job -> sub-directories of the job directory
    kfFiles,     \* job -> numbers i of the files keyframes/keyframe_00i.jpg
    kfSeeks,     \* history: job -> frame indices video.seek was called with
    kfSaved,     \* job -> the list _extract_keyframes returned (file numbers)
    fileStates,  \* history: job -> every content status.txt has ever had
    connections, \* job -> the observer whose queue SSEManager.connections holds
    queue,       \* observer -> content of the asyncio.Queue of its stream
    obsPc,       \* observer -> "idle" | "streaming" | "closed"
    obsJob,      \* observer -> job id of its /stream request
    delivered,   \* observer -> events yielded to a connected client, in order
    written,     \* history: job -> every value written to status.txt, in order
    sent,        \* history: job -> every event passed to send_event, in order
    invoked,     \* history: job -> collaborators that were called
    failedAt,    \* history: job -> collaborator that raised ("none" if none)
    sentAtSub,   \* history: observer -> Len(sent[job]) when it subscribed
    subCount     \* history: job -> number of subscriptions ever registered

vars == << pc, kind, url, video, status, files, transcript, report, dirs,
           kfFiles, kfSeeks, kfSaved, fileStates, connections,
           queue, obsPc, obsJob, delivered, written, sent,
           invoked, failedAt, sentAtSub, subCount >>

jobVars == << pc, kind, url, video, status, files, transcript, report, dirs,
              kfFiles, kfSeeks, kfSaved, written, fileStates, invoked,
              failedAt >>
busVars == << connections, queue, sent >>
obsVars == << obsPc, obsJob, delivered, sentAtSub, subCount >>

NoStatus == <<>>
NoReport == <<>>

Init ==
    /\ pc = [j \in Jobs |-> "idle"]
    /\ kind = [j \in Jobs |-> "none"]
    /\ url = [j \in Jobs |-> NoUrl]
    /\ video = [j \in Jobs |-> NoVideo]
    /\ status = [j \in Jobs |-> NoStatus]
    /\ files = [j \in Jobs |-> {}]
    /\ transcript = [j \in Jobs |-> ""]
    /\ report = [j \in Jobs |-> NoReport]
    /\ dirs = [j \in Jobs |-> {}]
    /\ kfFiles = [j \in Jobs |-> {}]
    /\ kfSeeks = [j \in Jobs |-> <<>>]
    /\ kfSaved = [j \in Jobs |-> <<>>]
    /\ fileStates = [j \in Jobs |-> {}]
    /\ connections = [j \in Jobs |-> None]
    /\ queue = [o \in Observers |-> <<>>]
    /\ obsPc = [o \in Observers |-> "idle"]
    /\ obsJob = [o \in Observers |-> None]
    /\ delivered = [o \in Observers |-> <<>>]
    /\ written = [j \in Jobs |-> <<>>]
    /\ sent = [j \in Jobs |-> <<>>]
    /\ invoked = [j \in Jobs |-> {}]
    /\ failedAt = [j \in Jobs |-> "none"]
    /\ sentAtSub = [o \in Observers |-> 0]
    /\ subCount = [j \in Jobs |-> 0]

\* ------------------------------------------------------- pure operators
\* Python's `pat in s` on token sequences.
Contains(s, pat) ==
    \E i \in 1..Len(s) :
        /\ i + Len(pat) - 1 <= Len(s)
        /\ SubSeq(s, i, i + Len(pat) - 1) = pat

\* Mutant: the gate looks for the words without their slashes.
ValidUrl_NoSlashes(u) ==
    \/ Contains(u, <<"video">>)
    \/ Contains(u, <<"note">>)

\* analyzer.py:92  "/video/" in video_url or "/note/" in video_url
ValidUrl(u) ==
    \/ Contains(u, <<"/", "video", "/">>)
    \/ Contains(u, <<"/", "note", "/">>)

\* Mutant: the transcription step writes the download step's literal.
StageStatus_Regress(stage) ==
    IF stage = "transcribing" THEN <<"downloading">> ELSE <<stage>>

\* The value f.write(<stage name>) leaves in status.txt when a stage begins.
StageStatus(stage) == <<stage>>

\* analyzer.py:93-96  f"Error: {error_message}"
ValidationFailure == <<"Error: ", "Unsupported URL.">>
\* analyzer.py:76-78  f"error: Error during analysis: {e}"
LocalFailure(e) == <<"error: ", "Error during analysis: ", e>>
\* analyzer.py:112-114  f"error: An error occurred: {e}"
PipelineFailure(e) == <<"error: ", "An error occurred: ", e>>

\* Does an exception raised inside the pipeline reach the notifying wrapper?
\* run_analysis_pipeline catches every Exception and returns normally;
\* _run_analysis_on_local_file records the failure and re-raises.
RaisesToWrapper(k, failed) == failed /\ k = "upload"

\* main.py:60-65, 69-74  the event the wrapper passes to send_event
WrapperEvent(raised) == IF raised THEN "error" ELSE "complete"

\* The status values written when a stage of _run_analysis_on_local_file
\* raises e: the local handler's, then (URL jobs) the pipeline handler's.
LocalFailureWrites(k, e) ==
    IF k = "url" THEN <<LocalFailure(e), PipelineFailure(e)>>
                 ELSE <<LocalFailure(e)>>

\* Mutant: the keyframes directory is made before the transcriber is called.
OrchestratorMkdirs_Early(stage) ==
    IF stage \in {"transcribing", "extracting_frames"} THEN {"keyframes"}
                                                        ELSE {}

\* Directories the orchestrator itself creates on entering a stage
\* (analyzer.py:58-59, before _extract_keyframes is called).
OrchestratorMkdirs(stage) ==
    IF stage = "extracting_frames" THEN {"keyframes"} ELSE {}

\* Mutant: the middle frame index is rounded up.
Midpoint_RoundsUp(scene) == (2 * scene[1] + (scene[2] - scene[1]) + 1) \div 2

\* analyzer.py:185  int(start + (end - start) / 2): "/" is float division, so
\* the sum is a whole number or a whole number and a half; int() drops the
\* half.  Computed here on twice the value.
Midpoint(scene) == (2 * scene[1] + (scene[2] - scene[1])) \div 2

\* Mutant: the file is numbered by the count of keyframes saved so far.
KeyframeNumber_ByCount(i, n) == n + 1

\* analyzer.py:191  f"keyframe_{i+1:03d}.jpg": the number in the file name of
\* the keyframe of scene i (1-based here), n keyframes having been saved.
KeyframeNumber(i, n) == i

\* analyzer.py:183-196  the loop of _extract_keyframes from scene i on:
\* every seek target, and the numbers of the files saved (line 190 skips a
\* scene whose read() gave no frame).
RECURSIVE KeyframeLoop(_, _, _, _)
KeyframeLoop(scenes, readable, i, acc) ==
    IF i > Len(scenes) THEN acc
    ELSE LET mid == Midpoint(scenes[i]) IN
         KeyframeLoop(scenes, readable, i + 1,
            [ seeks |-> Append(acc.seeks, mid),
              saved |-> IF mid \in readable
                        THEN Append(acc.saved,
                                    KeyframeNumber(i, Len(acc.saved)))
                        ELSE acc.saved ])

\* analyzer.py:171-196  _extract_keyframes
extract_keyframes(v) ==
    KeyframeLoop(v.scenes, v.readable, 1, [seeks |-> <<>>, saved |-> <<>>])

\* Mutant: the audio file is removed only when whisper succeeded.
transcribe_cleanup_OnSuccess(fs, ok) ==
    IF ok THEN fs \ {<<"audio", "mp3">>} ELSE fs

\* analyzer.py:166-169  the finally clause of _transcribe_audio; ok tells
\* whether whisper returned.
transcribe_cleanup(fs, ok) == fs \ {<<"audio", "mp3">>}

\* analyzer.py:46-47  with open(status_file, "w") as f: f.write(v): the
\* contents the file passes through, open("w") truncating it first.
EmptyContent == <<"">>
WriteContents(v) == <<EmptyContent, v>>

\* analyzer.py:231  response.text
LlmReport == <<LlmText>>
\* Mutant: the fallback report leaves the transcript out.
FallbackReport_NoTranscript(e, t) ==
    <<"# LLM Analysis Failed\n\nError: ", e>>

\* analyzer.py:235  the fallback report built when the LLM call raises
FallbackReport(e, t) ==
    <<"# LLM Analysis Failed\n\nError: ", e, "\n\n## Transcript\n", t>>

\* Mutant: with nobody registered the call waits for a consumer.
send_event_Blocking(conns, q, j, m) ==
    [ conns |-> conns,
      q |-> IF conns[j] # None THEN [q EXCEPT ![conns[j]] = Append(@, m)]
                               ELSE q,
      returned |-> conns[j] # None ]

\* Mutant: the event is put at the head of the queue.
send_event_Lifo(conns, q, j, m) ==
    [ conns |-> conns,
      q |-> IF conns[j] # None THEN [q EXCEPT ![conns[j]] = <<m>> \o @]
                               ELSE q,
      returned |-> TRUE ]

\* main.py:43-45  SSEManager.send_event: the registry, the queues and whether
\* the call returned (asyncio.Queue() is unbounded, so put never waits).
send_event(conns, q, j, m) ==
    [ conns |-> conns,
      q |-> IF conns[j] # None THEN [q EXCEPT ![conns[j]] = Append(@, m)]
                               ELSE q,
      returned |-> TRUE ]

\* Mutant: the registry entry is kept.
remove_connection_Keeps(conns, j) == conns

\* main.py:47-49  SSEManager.remove_connection
remove_connection(conns, j) == [conns EXCEPT ![j] = None]

\* main.py:127-132  get_report
get_report(j) == IF <<"report", "md">> \in files[j] THEN 200 ELSE 404

\* main.py:134-139  get_video
get_video(j) == IF <<"video", "mp4">> \in files[j] THEN 200 ELSE 404

IsTerminalEvent(m) == m \in {"complete", "error"}

\* ------------------------------------------------------- action helpers
WriteStatus(j, vals) ==
    /\ status' = [status EXCEPT ![j] = vals[Len(vals)]]
    /\ written' = [written EXCEPT ![j] = @ \o vals]
    /\ fileStates' = [fileStates EXCEPT ![j] =
          @ \cup UNION { { WriteContents(vals[i])[k] : k \in 1..2 } :
                         i \in 1..Len(vals) }]

\* The tail of a wrapper: publish the terminal event and end the task.
Notify(j, raised) ==
    LET r == send_event(connections, queue, j, WrapperEvent(raised)) IN
    /\ sent' = [sent EXCEPT ![j] = Append(@, WrapperEvent(raised))]
    /\ connections' = r.conns
    /\ queue' = r.q
    \* "notifying": the task is still inside send_event
    /\ pc' = [pc EXCEPT ![j] = IF r.returned THEN "done" ELSE "notifying"]

\* A stage of _run_analysis_on_local_file raised e.
LocalStageFails(j, stage, e) ==
    /\ WriteStatus(j, LocalFailureWrites(kind[j], e))
    /\ failedAt' = [failedAt EXCEPT ![j] = stage]
    /\ Notify(j, RaisesToWrapper(kind[j], TRUE))

\* ------------------------------------------------------------- ingress
\* main.py:78-85
analyze_video_url(j, u) ==
    /\ pc[j] = "idle"
    /\ \A i \in Jobs : i < j => pc[i] # "idle"
    /\ pc' = [pc EXCEPT ![j] = "queued"]
    /\ kind' = [kind EXCEPT ![j] = "url"]
    /\ url' = [url EXCEPT ![j] = u]
    /\ UNCHANGED << video, status, files, transcript, report, dirs, kfFiles, kfSeeks, kfSaved, written, fileStates,
                    invoked, failedAt, busVars, obsVars >>

\* main.py:87-105
analyze_video_upload(j, v) ==
    /\ pc[j] = "idle"
    /\ \A i \in Jobs : i < j => pc[i] # "idle"
    /\ pc' = [pc EXCEPT ![j] = "queued"]
    /\ kind' = [kind EXCEPT ![j] = "upload"]
    /\ files' = [files EXCEPT ![j] = {<<"video", "mp4">>}]
    /\ video' = [video EXCEPT ![j] = v]
    /\ UNCHANGED << url, status, transcript, report, dirs, kfFiles, kfSeeks, kfSaved, written, fileStates,
                    invoked, failedAt, busVars, obsVars >>

\* ------------------------------------------------------------ pipeline
\* The entry of _run_analysis_on_local_file, up to the first await
\* (analyzer.py:41-48).
EnterLocalFile(j) ==
    /\ pc' = [pc EXCEPT ![j] = "extracting_audio"]
    /\ invoked' = [invoked EXCEPT ![j] = @ \cup {"extract_audio"}]
    /\ dirs' = [dirs EXCEPT ![j] = @ \cup OrchestratorMkdirs("extracting_audio")]

\* run_analysis_and_notify starts: the validation gate (analyzer.py:87-103).
StartUrl(j) ==
    /\ pc[j] = "queued" /\ kind[j] = "url"
    /\ IF ValidUrl(url[j])
       THEN /\ WriteStatus(j, <<StageStatus("downloading")>>)
            /\ pc' = [pc EXCEPT ![j] = "downloading"]
            /\ invoked' = [invoked EXCEPT ![j] = @ \cup {"download"}]
            /\ UNCHANGED busVars
       ELSE /\ WriteStatus(j, <<ValidationFailure>>)
            /\ Notify(j, RaisesToWrapper("url", FALSE))
            /\ UNCHANGED invoked
    /\ UNCHANGED << kind, url, video, files, transcript, report, dirs, kfFiles, kfSeeks, kfSaved,
                    failedAt, obsVars >>

\* run_local_file_analysis_and_notify starts (main.py:67-70).
StartUpload(j) ==
    /\ pc[j] = "queued" /\ kind[j] = "upload"
    /\ WriteStatus(j, <<StageStatus("extracting_audio")>>)
    /\ EnterLocalFile(j)
    /\ UNCHANGED << kind, url, video, files, transcript, report, kfFiles, kfSeeks, kfSaved, failedAt,
                    busVars, obsVars >>

\* _download_video returned a path (analyzer.py:103-108, 117-140).
DownloadReturns(j) ==
    /\ pc[j] = "downloading"
    /\ video' = [video EXCEPT ![j] = RemoteVideo(url[j])]
    /\ files' = [files EXCEPT ![j] =
                    {f \in @ : f[1] # "video"}
                        \cup {<<"video", RemoteVideo(url[j]).ext>>}]
    /\ WriteStatus(j, <<StageStatus("extracting_audio")>>)
    /\ EnterLocalFile(j)
    /\ UNCHANGED << kind, url, transcript, report, kfFiles, kfSeeks, kfSaved, failedAt,
                    busVars, obsVars >>

\* _download_video raised e, or returned nothing and line 105 raised
\* ValueError (analyzer.py:103-105, 110-115).
DownloadFails(j, e) ==
    /\ pc[j] = "downloading"
    /\ WriteStatus(j, <<PipelineFailure(e)>>)
    /\ failedAt' = [failedAt EXCEPT ![j] = "download"]
    /\ Notify(j, RaisesToWrapper("url", TRUE))
    /\ UNCHANGED << kind, url, video, files, transcript, report, dirs, kfFiles, kfSeeks, kfSaved,
                    invoked, obsVars >>

\* _extract_audio returned (analyzer.py:48-53, 142-154).
ExtractAudioReturns(j) ==
    /\ pc[j] = "extracting_audio"
    /\ files' = [files EXCEPT ![j] = @ \cup {<<"audio", "mp3">>}]
    /\ WriteStatus(j, <<StageStatus("transcribing")>>)
    /\ dirs' = [dirs EXCEPT ![j] = @ \cup OrchestratorMkdirs("transcribing")]
    /\ pc' = [pc EXCEPT ![j] = "transcribing"]
    /\ invoked' = [invoked EXCEPT ![j] = @ \cup {"transcribe"}]
    /\ UNCHANGED << kind, url, video, transcript, report, kfFiles, kfSeeks, kfSaved, failedAt,
                    busVars, obsVars >>

\* _extract_audio raised; ffmpeg may have left a partial audio.mp3.
ExtractAudioFails(j, e, partial) ==
    /\ pc[j] = "extracting_audio"
    /\ files' = [files EXCEPT ![j] =
                    IF partial THEN @ \cup {<<"audio", "mp3">>} ELSE @]
    /\ LocalStageFails(j, "extract_audio", e)
    /\ UNCHANGED << kind, url, video, transcript, report, dirs, kfFiles, kfSeeks, kfSaved, invoked,
                    obsVars >>

\* _transcribe_audio returned t: audio.txt written, audio.mp3 removed by the
\* finally clause; then lines 56-60 up to the await.
TranscribeReturns(j) ==
    /\ pc[j] = "transcribing"
    /\ transcript' = [transcript EXCEPT ![j] = video[j].speech]
    /\ files' = [files EXCEPT ![j] =
                    transcribe_cleanup(@ \cup {<<"audio", "txt">>}, TRUE)]
    /\ WriteStatus(j, <<StageStatus("extracting_frames")>>)
    /\ dirs' = [dirs EXCEPT ![j] =
                    @ \cup OrchestratorMkdirs("extracting_frames")]
    /\ pc' = [pc EXCEPT ![j] = "extracting_frames"]
    /\ invoked' = [invoked EXCEPT ![j] = @ \cup {"extract_keyframes"}]
    /\ UNCHANGED << kind, url, video, report, kfFiles, kfSeeks, kfSaved, failedAt, busVars, obsVars >>

\* whisper raised e; the finally clause still removes audio.mp3.
TranscribeFails(j, e) ==
    /\ pc[j] = "transcribing"
    /\ files' = [files EXCEPT ![j] = transcribe_cleanup(@, FALSE)]
    /\ LocalStageFails(j, "transcribe", e)
    /\ UNCHANGED << kind, url, video, transcript, report, dirs, kfFiles, kfSeeks, kfSaved, invoked,
                    obsVars >>

\* _extract_keyframes returned having saved its keyframes
\* (analyzer.py:60-65, 171-196), then _generate_report up to its await.
KeyframesReturn(j) ==
    /\ pc[j] = "extracting_frames"
    /\ dirs' = [dirs EXCEPT ![j] =
                    @ \cup {"keyframes"} \cup OrchestratorMkdirs("generating_report")]
    /\ kfSeeks' = [kfSeeks EXCEPT ![j] = extract_keyframes(video[j]).seeks]
    /\ kfSaved' = [kfSaved EXCEPT ![j] = extract_keyframes(video[j]).saved]
    /\ kfFiles' = [kfFiles EXCEPT ![j] =
          { extract_keyframes(video[j]).saved[i] :
                i \in 1..Len(extract_keyframes(video[j]).saved) }]
    /\ WriteStatus(j, <<StageStatus("generating_report")>>)
    /\ pc' = [pc EXCEPT ![j] = "generating_report"]
    /\ invoked' = [invoked EXCEPT ![j] = @ \cup {"generate"}]
    /\ UNCHANGED << kind, url, video, files, transcript, report, failedAt, busVars,
                    obsVars >>

\* open_video or scene detection raised e (after the makedirs of line 174).
KeyframesFail(j, e) ==
    /\ pc[j] = "extracting_frames"
    /\ dirs' = [dirs EXCEPT ![j] = @ \cup {"keyframes"}]
    /\ LocalStageFails(j, "extract_keyframes", e)
    /\ UNCHANGED << kind, url, video, files, transcript, report, kfFiles, kfSeeks, kfSaved, invoked,
                    obsVars >>

\* The tail of the pipeline once _generate_report has returned text
\* (analyzer.py:67-73), then the wrapper's send_event("complete").
SaveReport(j, text) ==
    /\ report' = [report EXCEPT ![j] = text]
    /\ files' = [files EXCEPT ![j] = @ \cup {<<"report", "md">>}]
    /\ WriteStatus(j, <<StageStatus("complete")>>)
    /\ Notify(j, RaisesToWrapper(kind[j], FALSE))

\* generate_content_async returned (analyzer.py:228-231).
GenerateReturns(j) ==
    /\ pc[j] = "generating_report"
    /\ SaveReport(j, LlmReport)
    /\ UNCHANGED << kind, url, video, transcript, dirs, kfFiles, kfSeeks, kfSaved, invoked, failedAt,
                    obsVars >>

\* generate_content_async raised e: the fallback report (analyzer.py:232-235).
GenerateFails(j, e) ==
    /\ pc[j] = "generating_report"
    /\ SaveReport(j, FallbackReport(e, transcript[j]))
    /\ failedAt' = [failedAt EXCEPT ![j] = "generate"]
    /\ UNCHANGED << kind, url, video, transcript, dirs, kfFiles, kfSeeks, kfSaved, invoked, obsVars >>

\* ------------------------------------------------------------- streams
\* main.py:107-109, 38-41  GET /stream/{job_id}: add_connection
\* A client learns the job id (a uuid4) from the response of /analyze, so a
\* stream request names a job that has been created.
Subscribe(o, j) ==
    /\ obsPc[o] = "idle"
    /\ \A p \in Observers : p < o => obsPc[p] # "idle"
    /\ pc[j] # "idle"
    /\ obsPc' = [obsPc EXCEPT ![o] = "streaming"]
    /\ obsJob' = [obsJob EXCEPT ![o] = j]
    /\ connections' = [connections EXCEPT ![j] = o]
    /\ queue' = [queue EXCEPT ![o] = <<>>]
    /\ sentAtSub' = [sentAtSub EXCEPT ![o] = Len(sent[j])]
    /\ subCount' = [subCount EXCEPT ![j] = @ + 1]
    /\ UNCHANGED << jobVars, sent, delivered >>

\* main.py:113-123  queue.get() returns a message, it is yielded; a terminal
\* message ends the generator, whose finally clause deregisters the job id.
Deliver(o) ==
    /\ obsPc[o] = "streaming"
    /\ queue[o] # <<>>
    /\ queue' = [queue EXCEPT ![o] = Tail(@)]
    /\ delivered' = [delivered EXCEPT ![o] = Append(@, Head(queue[o]))]
    /\ IF IsTerminalEvent(Head(queue[o]))
       THEN /\ obsPc' = [obsPc EXCEPT ![o] = "closed"]
            /\ connections' = remove_connection(connections, obsJob[o])
       ELSE UNCHANGED << obsPc, connections >>
    /\ UNCHANGED << jobVars, sent, obsJob, sentAtSub, subCount >>

\* main.py:114-115, 122-123  The server learns that the client has gone: the
\* generator ends (is_disconnected() is true at the top of the loop, or the
\* response cancels the generator waiting in queue.get()) and its finally
\* clause deregisters the job id.  The generator's queue is garbage from
\* here on.
Disconnect(o) ==
    /\ obsPc[o] = "streaming"
    /\ obsPc' = [obsPc EXCEPT ![o] = "closed"]
    /\ connections' = remove_connection(connections, obsJob[o])
    /\ queue' = [queue EXCEPT ![o] = <<>>]
    /\ UNCHANGED << jobVars, sent, obsJob, delivered, sentAtSub, subCount >>

\* The task of job j takes its next step, the collaborator it waits for
\* having returned (analyzer.py:37-73, 99-108).
JobStep(j) ==
    \/ StartUrl(j)
    \/ StartUpload(j)
    \/ DownloadReturns(j)
    \/ ExtractAudioReturns(j)
    \/ TranscribeReturns(j)
    \/ KeyframesReturn(j)
    \/ GenerateReturns(j)

\* --------------------------------------------------------- specification
DownloadErrors == {"DownloadError", "Failed to download video."}
MediaErrors == {"MediaError"}
TranscriptionErrors == {"TranscriptionError"}
GenerationErrors == {"GenerationError"}

Next ==
    \/ \E j \in Jobs, u \in Urls : analyze_video_url(j, u)
    \/ \E j \in Jobs, v \in Uploads : analyze_video_upload(j, v)
    \/ \E j \in Jobs : StartUrl(j)
    \/ \E j \in Jobs : StartUpload(j)
    \/ \E j \in Jobs : DownloadReturns(j)
    \/ \E j \in Jobs, e \in DownloadErrors : DownloadFails(j, e)
    \/ \E j \in Jobs : ExtractAudioReturns(j)
    \/ \E j \in Jobs, e \in MediaErrors, partial \in BOOLEAN :
            ExtractAudioFails(j, e, partial)
    \/ \E j \in Jobs : TranscribeReturns(j)
    \/ \E j \in Jobs, e \in TranscriptionErrors : TranscribeFails(j, e)
    \/ \E j \in Jobs : KeyframesReturn(j)
    \/ \E j \in Jobs, e \in MediaErrors : KeyframesFail(j, e)
    \/ \E j \in Jobs : GenerateReturns(j)
    \/ \E j \in Jobs, e \in GenerationErrors : GenerateFails(j, e)
    \/ \E o \in Observers, j \in Jobs : Subscribe(o, j)
    \/ \E o \in Observers : Deliver(o)
    \/ \E o \in Observers : Disconnect(o)

Spec == Init /\ [][Next]_vars

\* ------------------------------------------- the registry on its own
\* SSEManager and the stream readers driven by a publisher that calls
\* send_event up to MaxPublishes times per job: the stage names in pipeline
\* order, a terminal event last (main.py:43-45).
PublishScript == <<"extracting_audio", "transcribing", "extracting_frames">>

Publish(j, m) ==
    /\ pc[j] # "idle"
    /\ Len(sent[j]) < MaxPublishes
    /\ \A i \in 1..Len(sent[j]) : ~IsTerminalEvent(sent[j][i])
    /\ \/ IsTerminalEvent(m)
       \/ /\ Len(sent[j]) < Len(PublishScript)
          /\ m = PublishScript[Len(sent[j]) + 1]
    /\ LET r == send_event(connections, queue, j, m) IN
          /\ sent' = [sent EXCEPT ![j] = Append(@, m)]
          /\ connections' = r.conns
          /\ queue' = r.q
    /\ UNCHANGED << jobVars, obsVars >>

PublishEvents == {"extracting_audio", "transcribing", "extracting_frames",
                  "complete", "error"}

BusNext ==
    \/ \E j \in Jobs, v \in Uploads : analyze_video_upload(j, v)
    \/ \E j \in Jobs, m \in PublishEvents : Publish(j, m)
    \/ \E o \in Observers, j \in Jobs : Subscribe(o, j)
    \/ \E o \in Observers : Deliver(o)
    \/ \E o \in Observers : Disconnect(o)

BusSpec == Init /\ [][BusNext]_vars

TypeOK ==
    /\ pc \in [Jobs -> {"idle", "queued", "downloading", "extracting_audio",
                        "transcribing", "extracting_frames",
                        "generating_report", "notifying", "done"}]
    /\ kind \in [Jobs -> {"none", "url", "upload"}]
    /\ connections \in [Jobs -> Observers \cup {None}]
    /\ obsPc \in [Observers -> {"idle", "streaming", "closed"}]

\* ------------------------------------- one uploaded video of any shape
\* The first job run from an upload of any video up to the bounds: scene
\* lists as the detector returns them (in order, start <= end, a scene
\* starting where the one before it ended or later) and any set of frames
\* the decoder can read.
MaxScenes == 2
MaxFrame == 3

Frames == 0..MaxFrame
Scenes == { sc \in Frames \X Frames : sc[1] <= sc[2] }
SceneLists ==
    UNION { { sl \in [1..n -> Scenes] :
                \A i \in 1..(n - 1) : sl[i][2] <= sl[i + 1][1] } :
            n \in 0..MaxScenes }
AnyUploads ==
    { [ext |-> "mp4", speech |-> "hello world", scenes |-> sl, readable |-> r] :
        sl \in SceneLists, r \in SUBSET Frames }

UploadJob == 1

\* main.py:87-105  POST /analyze-upload with any of the videos.
UploadAnyVideo(j) ==
    /\ pc[j] = "idle"
    /\ \E v \in AnyUploads : analyze_video_upload(j, v)

UploadNext ==
    \/ UploadAnyVideo(UploadJob)
    \/ StartUpload(UploadJob)
    \/ ExtractAudioReturns(UploadJob)
    \/ \E e \in MediaErrors, partial \in BOOLEAN :
            ExtractAudioFails(UploadJob, e, partial)
    \/ TranscribeReturns(UploadJob)
    \/ \E e \in TranscriptionErrors : TranscribeFails(UploadJob, e)
    \/ KeyframesReturn(UploadJob)
    \/ \E e \in MediaErrors : KeyframesFail(UploadJob, e)
    \/ GenerateReturns(UploadJob)
    \/ \E e \in GenerationErrors : GenerateFails(UploadJob, e)

UploadSpec == Init /\ [][UploadNext]_vars

\* ------------------------------------------------------- vocabulary
StageOrder == <<"downloading", "extracting_audio", "transcribing",
                "extracting_frames", "generating_report", "complete">>

IsStageValue(s) == \E k \in 1..Len(StageOrder) : s = <<StageOrder[k]>>
Rank(s) == CHOOSE k \in 1..Len(StageOrder) : s = <<StageOrder[k]>>
IsNonTerminalStage(s) == IsStageValue(s) /\ s # <<"complete">>

\* A failure record: the error marker followed by the detail text.
IsFailureRecord(s) ==
    /\ Len(s) >= 2
    /\ s[1] \in {"error: ", "Error: "}

\* The collaborators in call order; LaterThan(c) are those after c.
Collaborators == <<"download", "extract_audio", "transcribe",
                   "extract_keyframes", "generate">>
LaterThan(c) ==
    { Collaborators[k] : k \in { n \in 1..Len(Collaborators) :
        \E i \in 1..Len(Collaborators) : Collaborators[i] = c /\ i < n } }

\* The URL has a "/seg/" path segment.
HasSegment(u, seg) ==
    \E i \in 1..Len(u) :
        i + 2 <= Len(u) /\ u[i] = "/" /\ u[i + 1] = seg /\ u[i + 2] = "/"
Rejected(j) ==
    kind[j] = "url" /\ ~HasSegment(url[j], "video") /\ ~HasSegment(url[j], "note")

\* The event name of a status value: the stage name, or "error".
EventOf(s) == IF IsFailureRecord(s) THEN "error" ELSE s[1]
RECURSIVE EventsOf(_)
EventsOf(ss) == IF ss = <<>> THEN <<>>
                ELSE <<EventOf(Head(ss))>> \o EventsOf(Tail(ss))

\* ------------------------------------------------------------- claims
\* C1: if download, audio extraction, transcription or frame extraction
\* fails, the job's status ends as a failure record, the terminal event
\* published is "error" and never "complete", and no later stage is started.
\* (Violated: a URL job publishes "complete" after a failed stage.)
C1_StageFailureEndsInError ==
    \A j \in Jobs :
        (pc[j] = "done" /\ failedAt[j] \in {"download", "extract_audio",
                                            "transcribe", "extract_keyframes"})
            => /\ IsFailureRecord(status[j])
               /\ sent[j] = <<"error">>
               /\ invoked[j] \cap LaterThan(failedAt[j]) = {}

\* C2: whenever "complete" has been published for a job its status record is
\* "complete" and its report can be retrieved; whenever "error" has been
\* published its status record is a failure record with the detail text.
\* (Violated: a URL job publishes "complete" over a failure record.)
C2_TerminalEventAgreesWithStore ==
    \A j \in Jobs : \A i \in 1..Len(sent[j]) :
        /\ sent[j][i] = "complete"
              => status[j] = <<"complete">> /\ get_report(j) = 200
        /\ sent[j][i] = "error" => IsFailureRecord(status[j])

\* C3: the values written to a job's status record never regress: each value
\* a step writes is a failure record, or a stage name that is the same as or
\* later than the stage written before it; after a failure record or
\* "complete" no non-terminal stage name is written.
C3_StatusNeverRegresses ==
    [][ \A j \in Jobs :
          \A k \in (Len(written[j]) + 1)..Len(written'[j]) :
            LET b == written'[j][k] IN
            /\ IsFailureRecord(b) \/ IsStageValue(b)
            /\ (k > 1 /\ ~IsFailureRecord(b))
                  => /\ IsStageValue(written'[j][k - 1])
                     /\ Rank(written'[j][k - 1]) <= Rank(b)
            /\ IsNonTerminalStage(b)
                  => \A i \in 1..(k - 1) :
                        /\ ~IsFailureRecord(written'[j][i])
                        /\ written'[j][i] # <<"complete">> ]_vars

\* C3 witness: a URL job whose status went through all six stage values.
C3_Witness ==
    \E j \in Jobs :
        /\ Len(written[j]) = 6
        /\ written[j][1] = <<"downloading">>
        /\ written[j][6] = <<"complete">>

\* C4: a URL job whose URL has neither a /video/ nor a /note/ segment goes
\* directly to a failure record: no stage name is ever written and the
\* downloader is never invoked.
C4_RejectedUrlNeverDownloads ==
    \A j \in Jobs :
        Rejected(j)
            => /\ invoked[j] = {}
               /\ pc[j] \in {"queued", "done"}
               /\ \A i \in 1..Len(written[j]) : IsFailureRecord(written[j][i])
               /\ pc[j] = "done" => IsFailureRecord(status[j])

C4_Witness ==
    \E j \in Jobs :
        /\ Rejected(j) /\ pc[j] = "done"
        /\ url[j] = <<"tiktok.com", "/", "videos", "/", "video">>
        /\ IsFailureRecord(status[j])

\* C5: the terminal event published for a URL rejected by the validation
\* gate is "error", and "complete" is never published for it.
\* (Violated: the gate returns normally and the wrapper publishes "complete".)
C5_RejectedUrlPublishesError ==
    \A j \in Jobs :
        (Rejected(j) /\ pc[j] = "done")
            => /\ sent[j] = <<"error">>
               /\ \A i \in 1..Len(sent[j]) : sent[j][i] # "complete"

\* C6: one event is published per stage transition: every step that writes
\* values to the status record of a job with a registered subscription also
\* enqueues the events of those values on that subscription's queue.
\* (Violated: the stage names are written but never published.)
C6_OneEventPerStageTransition ==
    [][ \A j \in Jobs :
          (written'[j] # written[j] /\ connections[j] # None)
             => LET o == connections[j]
                    new == SubSeq(written'[j], Len(written[j]) + 1,
                                  Len(written'[j]))
                IN  queue'[o] = queue[o] \o EventsOf(new) ]_vars

\* C7: publishing to a job id with no registered subscription returns
\* without blocking or raising, drops the event and leaves the registry and
\* every queue unchanged, so the job's run ends.
C7_PublishWithoutSubscriberIsDropped ==
    [][ \A j \in Jobs :
          (sent'[j] # sent[j] /\ connections[j] = None)
             => /\ connections' = connections
                /\ queue' = queue
                /\ pc'[j] = "done" ]_vars

\* C7 witness: a job has run to its end and nobody ever subscribed to it.
C7_Witness ==
    \E j \in Jobs :
        /\ pc[j] = "done" /\ subCount[j] = 0
        /\ Len(sent[j]) = 1
        /\ \A o \in Observers : queue[o] = <<>>

\* The stream of observer o is still served: it is reading, or it ended by
\* itself on a terminal event.
StaysConnected(o) ==
    \/ obsPc[o] = "streaming"
    \/ /\ obsPc[o] = "closed"
       /\ delivered[o] # <<>>
       /\ IsTerminalEvent(delivered[o][Len(delivered[o])])

\* C8: for a job with exactly one subscriber that subscribed before the
\* first publish and stays connected, the events delivered so far followed
\* by the events still queued are exactly the events published, in publish
\* order: none lost, none duplicated, none reordered.
C8_SingleSubscriberFifo ==
    \A o \in Observers :
        (StaysConnected(o) /\ subCount[obsJob[o]] = 1 /\ sentAtSub[o] = 0)
            => delivered[o] \o queue[o] = sent[obsJob[o]]

\* C8 witness: MaxPublishes events, a terminal one last, all delivered.
C8_Witness ==
    \E o \in Observers :
        /\ obsPc[o] = "closed" /\ StaysConnected(o)
        /\ subCount[obsJob[o]] = 1 /\ sentAtSub[o] = 0
        /\ Len(delivered[o]) = MaxPublishes
        /\ MaxPublishes >= 2
        /\ delivered[o] = sent[obsJob[o]]

\* C9: if only the report generator fails, the job still reaches "complete",
\* report.md is written, the report holds the failure marker and the literal
\* transcript, and the terminal event is "complete".
C9_GenerationFailureStillCompletes ==
    \A j \in Jobs :
        (failedAt[j] = "generate" /\ pc[j] = "done")
            => /\ status[j] = <<"complete">>
               /\ get_report(j) = 200
               /\ report[j][1] = "# LLM Analysis Failed\n\nError: "
               /\ \E i \in 2..Len(report[j]) : report[j][i] = video[j].speech
               /\ sent[j] = <<"complete">>

C9_Witness ==
    \E j \in Jobs :
        /\ failedAt[j] = "generate" /\ pc[j] = "done"
        /\ video[j].speech = "hello world"
        /\ report[j][Len(report[j])] = "hello world"

\* C10: if the transcriber fails, the status record is a failure record and
\* the keyframes directory does not exist; it exists in no state of a run
\* before transcription has succeeded.
C10_NoKeyframesDirWithoutTranscript ==
    \A j \in Jobs :
        /\ failedAt[j] = "transcribe"
              => IsFailureRecord(status[j]) /\ "keyframes" \notin dirs[j]
        /\ "keyframes" \in dirs[j] => <<"audio", "txt">> \in files[j]

C10_Witness ==
    \E j \in Jobs :
        /\ failedAt[j] = "transcribe" /\ pc[j] = "done"
        /\ "transcribe" \in invoked[j]
        /\ "keyframes" \notin dirs[j]

\* ---------------------------------------------------------- keyframes
\* The middle of the scene [start, end) as the specification states it.
MidFrame(scene) == scene[1] + ((scene[2] - scene[1]) \div 2)

\* The numbers of the scenes of v whose middle frame can be read.
DecodableScenes(v) ==
    { i \in 1..Len(v.scenes) : MidFrame(v.scenes[i]) \in v.readable }

\* _extract_keyframes has returned for job j.
KeyframesDone(j) == "generate" \in invoked[j]

SuccessWrites ==
    << <<"extracting_audio">>, <<"transcribing">>, <<"extracting_frames">>,
       <<"generating_report">>, <<"complete">> >>

\* C11: a job created from an upload never has the status downloading;
\* when all its stages succeed the values written are exactly
\* extracting_audio, transcribing, extracting_frames, generating_report,
\* complete in that order, and there are as many keyframe files as detected
\* scenes with a decodable middle frame (2 for a video of 2 such scenes).
C11_UploadStatusesAndKeyframeCount ==
    \A j \in Jobs :
        kind[j] = "upload" =>
            /\ \A i \in 1..Len(written[j]) : written[j][i] # <<"downloading">>
            /\ status[j] # <<"downloading">>
            /\ (pc[j] = "done" /\ failedAt[j] = "none") =>
                  /\ written[j] = SuccessWrites
                  /\ Cardinality(kfFiles[j])
                        = Cardinality(DecodableScenes(video[j]))
                  /\ (/\ Len(video[j].scenes) = 2
                      /\ DecodableScenes(video[j]) = {1, 2})
                        => Cardinality(kfFiles[j]) = 2

C11_Witness ==
    \E j \in Jobs :
        /\ kind[j] = "upload" /\ pc[j] = "done" /\ failedAt[j] = "none"
        /\ Len(video[j].scenes) = 2
        /\ Cardinality(kfFiles[j]) = 2
        /\ status[j] = <<"complete">>

\* C14: for every ordered scene list with non-negative frame indices,
\* _extract_keyframes seeks, for each scene [start, end), to exactly
\* start + floor((end - start) / 2), and returns the keyframes it produced
\* in scene order; for an empty scene list it returns an empty list and
\* does not fail.
C14_SeeksTheMiddleOfEveryScene ==
    \A j \in Jobs :
        KeyframesDone(j) =>
            /\ Len(kfSeeks[j]) = Len(video[j].scenes)
            /\ \A i \in 1..Len(kfSeeks[j]) :
                    kfSeeks[j][i] = MidFrame(video[j].scenes[i])
            /\ \A i \in 1..Len(kfSaved[j]) : \A k \in 1..Len(kfSaved[j]) :
                    i < k => kfSaved[j][i] < kfSaved[j][k]
            /\ video[j].scenes = <<>> => kfSaved[j] = <<>>
            /\ failedAt[j] # "extract_keyframes"

C14_Witness ==
    \E j \in Jobs :
        /\ KeyframesDone(j)
        /\ Len(video[j].scenes) = 2
        /\ \E i \in 1..2 :
              (video[j].scenes[i][2] - video[j].scenes[i][1]) % 2 = 1
        /\ kfSaved[j] = <<1, 2>>

\* C15 as stated: a scene whose middle frame cannot be read is skipped
\* without failing the run, and the k files produced carry the numbers
\* 001..k.
C15_FilesNumberedWithoutGaps ==
    \A j \in Jobs :
        KeyframesDone(j) =>
            /\ failedAt[j] # "extract_keyframes"
            /\ kfFiles[j] = 1..Cardinality(kfFiles[j])

\* C15 amended: a scene whose middle frame cannot be read (a zero-length
\* scene [s, s) with s out of range included) is skipped: the run does not
\* fail, every later scene is still sought and saved if it can be read, the
\* list returned has one entry per decodable scene, and each file carries
\* the number of its scene, so the numbers have a gap at a skipped scene.
C15_SkippedSceneLeavesGap ==
    \A j \in Jobs :
        KeyframesDone(j) =>
            /\ failedAt[j] # "extract_keyframes"
            /\ Len(kfSeeks[j]) = Len(video[j].scenes)
            /\ kfFiles[j] = DecodableScenes(video[j])
            /\ Len(kfSaved[j]) = Cardinality(DecodableScenes(video[j]))
            /\ \A i \in 1..Len(kfSaved[j]) : kfSaved[j][i] \in kfFiles[j]

C15_Witness ==
    \E j \in Jobs :
        /\ KeyframesDone(j)
        /\ Len(video[j].scenes) = 2
        /\ video[j].scenes[1][1] = video[j].scenes[1][2]
        /\ video[j].scenes[1][1] \notin video[j].readable
        /\ kfFiles[j] = {2}

\* ------------------------------------------------------- status file
\* C12: status-record writes are atomic with respect to concurrent readers:
\* every content status.txt ever has is a complete value that was written,
\* never empty and never partial.
\* (Violated: open(path, "w") empties the file before the value is written.)
C12_ReaderSeesOnlyCompleteValues ==
    \A j \in Jobs : \A c \in fileStates[j] :
        /\ c # EmptyContent
        /\ \E i \in 1..Len(written[j]) : written[j][i] = c

\* -------------------------------------------------------- observers
\* The stream of observer o was closed without a terminal event.
ClosedEarly(o) == obsPc[o] = "closed" /\ ~StaysConnected(o)

\* C13: when an observer's stream closes before the terminal event, its
\* subscription is no longer in the registry and the job is not cancelled:
\* the job's task can always take its next step until it has ended, it ends
\* with a terminal status and one terminal event published, and no publish
\* waits on the removed queue or puts anything in it.
C13_DisconnectDoesNotCancelJob ==
    \A o \in Observers :
        ClosedEarly(o) =>
            LET j == obsJob[o] IN
            /\ connections[j] # o
            /\ queue[o] = <<>>
            /\ pc[j] # "notifying"
            /\ pc[j] # "done" => ENABLED JobStep(j)
            /\ pc[j] = "done" =>
                  /\ status[j] = <<"complete">> \/ IsFailureRecord(status[j])
                  /\ Len(sent[j]) = 1 /\ IsTerminalEvent(sent[j][1])

\* C13 witness: an observer has gone while its job, with nothing published
\* yet, is still transcribing.
C13_Witness ==
    \E o \in Observers :
        /\ ClosedEarly(o)
        /\ pc[obsJob[o]] = "transcribing"
        /\ sent[obsJob[o]] = <<>>

\* C16: within one job a status write precedes the publish of the
\* corresponding event: in the step that enqueues "complete" the status
\* record holds "complete", and in the step that enqueues "error" it holds
\* a failure record.
\* (Violated: a URL job enqueues "complete" over a failure record, see C1.)
C16_StatusWrittenBeforePublish ==
    [][ \A j \in Jobs :
          Len(sent'[j]) > Len(sent[j]) =>
             /\ sent'[j][Len(sent'[j])] = "complete"
                    => status'[j] = <<"complete">>
             /\ sent'[j][Len(sent'[j])] = "error"
                    => IsFailureRecord(status'[j]) ]_vars

\* C17: once the transcription stage has ended, by returning or by
\* raising, the audio file does not exist, in that state and in every
\* later one.
C17_AudioRemovedAfterTranscription ==
    \A j \in Jobs :
        ("transcribe" \in invoked[j] /\ pc[j] # "transcribing")
            => <<"audio", "mp3">> \notin files[j]

\* C17 witness: whisper raised after the audio had been extracted, and the
\* job has ended.
C17_Witness ==
    \E j \in Jobs :
        /\ failedAt[j] = "transcribe" /\ pc[j] = "done"
        /\ "extract_audio" \in invoked[j]
        /\ <<"audio", "mp3">> \notin files[j]

\* C18: each job directory holds at most one video file, and on both
\* ingress paths it has the one name get_video looks for whatever the
\* source's extension, so get_video succeeds for every job whose video has
\* been stored.
\* (Violated: a download is stored under the extension the remote reports.)
C18_StoredVideoIsServed ==
    \A j \in Jobs :
        /\ Cardinality({ f \in files[j] : f[1] = "video" }) <= 1
        /\ (\E f \in files[j] : f[1] = "video") => get_video(j) = 200

\* C19: ending one observer's stream removes only that observer's own
\* subscription: a step that closes the stream of one observer leaves the
\* registry entry of every other observer in place.
\* (Violated: remove_connection deletes whatever queue the job id maps to.)
C19_CloseRemovesOnlyOwnSubscription ==
    [][ \A o \in Observers :
          (obsPc[o] = "streaming" /\ obsPc'[o] = "closed") =>
             \A p \in Observers \ {o} :
                connections[obsJob[o]] = p => connections'[obsJob[o]] = p ]_vars

\* C20: no subscription queue leaks: once a job's task has ended, every
\* stream still open on that job has the terminal event in its queue, so
\* that the stream of a connected observer ends and its entry is removed.
\* (Violated: a subscription made after the terminal event was published
\* waits on an empty queue for ever.)
C20_OpenStreamHasTerminalEventComing ==
    \A o \in Observers :
        (obsPc[o] = "streaming" /\ pc[obsJob[o]] = "done")
            => \E i \in 1..Len(queue[o]) : IsTerminalEvent(queue[o][i])

=============================================================================
